---- MODULE Spec2Model ----
(***************************************************************************)
(* Client state synchronisation layer of the virtual-expert front end.     *)
(*                                                                         *)
(* Two state machines are modelled from the source:                        *)
(*   SpecAuth - the session: AuthContext.js (initAuth, login, register,    *)
(*              logout), the axios client of services/api.js with its      *)
(*              request and response interceptors, and the chat page's     *)
(*              direct fetch() requests;                                   *)
(*   SpecSync - NotificationContext.js: the notification list and the      *)
(*              training-poll effect over trainingModels.                  *)
(* Every asynchronous handler is split at its await: one action issues the *)
(* request, a second one runs the continuation on the response.            *)
(***************************************************************************)
EXTENDS Integers, Sequences, FiniteSets, TLC

VARIABLES
    \* ---- session (AuthContext.js, services/api.js) ----
    storageToken,   \* localStorage item 'accessToken'
    storageUser,    \* localStorage item 'userData' (a string)
    user,           \* AuthProvider state: user
    loading,        \* AuthProvider state: loading
    defaultAuth,    \* apiClient.defaults.headers.common['Authorization']
    navPending,     \* window.location.href = '/login' assigned, page not yet replaced
    inflight,       \* requests sent and not yet answered
    authEvent,      \* history: the handler step that ran last
    logins,         \* history: tokens of the successful logins since the session was last cleared
    loggedOut,      \* history: logout ran and no login has succeeded since
    \* ---- training poll and notifications (NotificationContext.js) ----
    trainingModels, \* NotificationProvider state: trainingModels (the WatchSet)
    notifications,  \* NotificationProvider state: notifications
    fetches,        \* poll fetches issued and not yet returned: how many per closure (the
                    \* trainingModels their callback closed over)
    now,            \* Date.now()
    polling,        \* history: "failed" once a poll fetch has failed, "retried" once a
                    \* tick has issued a fetch after that, "idle" before
    \* ---- routed pages (Chat, Models, History) ----
    page,           \* the routed page on screen
    messages,       \* Chat state: messages
    chatLoading,    \* Chat state: loading
    chatError,      \* Chat state: error is a non-empty string
    chatStep,       \* where Chat.handleSubmit is: "idle", "query" or "csv"
    uploads,        \* Chat.handleFileUpload calls awaiting their fetch
    toasts,         \* react-hot-toast toasts on screen
    modelsError,    \* Models state: error is a non-empty string
    calls,          \* Models: wrapper calls awaiting their answer
    queries,        \* History state: queries
    histLoading,    \* History state: loading
    histError,      \* History state: error is a non-empty string
    deleteDialogOpen, \* History state: deleteDialogOpen
    queryToDelete,  \* History state: queryToDelete
    deleting,       \* History: deleteQuery calls awaiting, each with the queries
                    \* its handler closed over
    fetching        \* History: getQueries calls awaiting their answer

authVars == <<storageToken, storageUser, user, loading, defaultAuth, navPending,
              inflight, authEvent, logins, loggedOut>>
syncVars == <<trainingModels, notifications, fetches, now, polling>>
pageVars == <<page, messages, chatLoading, chatError, chatStep, uploads, toasts,
              modelsError, calls, queries, histLoading, histError,
              deleteDialogOpen, queryToDelete, deleting, fetching>>
vars == <<authVars, syncVars, pageVars>>

----------------------------------------------------------------------------
(* Bounds *)

MaxInflight == 2       \* requests awaiting an answer at once (session)
MaxFetches == 2        \* poll fetches awaiting an answer at once
MaxNotifications == 1  \* notifications on screen when another is shown
MaxClock == 3          \* last millisecond of Date.now(); nothing is shown in it
MaxMessages == 2       \* chat messages on screen when another is submitted

----------------------------------------------------------------------------
(* Values *)

Null == "NULL"                      \* JavaScript null
Tokens == {"T1", "T2"}              \* access_token values the backend issues
Profiles == {"U1", "U2"}            \* user objects the backend returns

NoHeader == <<>>                    \* the request has no Authorization header
NoSend == <<"nosend">>              \* history value: the step sent no request

\* `${x}` : template-literal conversion of a value that may be null
Str(x) == IF x = Null THEN "null" ELSE x

\* `Bearer ${token}`
Bearer(token) == <<"Bearer", Str(token)>>

\* localStorage holds strings; a missing item reads as null
NoItem == <<"absent">>
Garbage == <<"text", "undefined">>  \* a stored string that is not JSON

\* JSON.stringify(response.user)
JSONstringify(u) == <<"json", u>>

\* JSON.parse(localStorage.getItem('userData')): parse(null) is null, a
\* non-JSON string throws
JSONparse(s) ==
    IF s = NoItem THEN [ok |-> TRUE, val |-> Null]
    ELSE IF s[1] = "json" THEN [ok |-> TRUE, val |-> s[2]]
    ELSE [ok |-> FALSE, val |-> Null]

StoredProfiles == {NoItem, Garbage} \cup {JSONstringify(u) : u \in Profiles}

\* HTTP status of a response; 0 stands for "no response" (network error)
Statuses == {200, 401, 403, 500, 0}

Ok(status) == status = 200

\* kinds of request the client sends
ViaApiClient == {"login", "register", "api", "query"}
ViaFetch == {"generate-csv", "analyze"}
\* every endpoint but login and register requires the bearer credential
Authenticated == {"api", "query", "generate-csv", "analyze"}

NoEvent == [op |-> "none", kind |-> "-", status |-> 0, sent |-> NoSend,
            result |-> "-", body |-> <<>>]

\* identifiers of fine-tuned models, and the training_status values the
\* backend reports for them
Ids == {"m1", "m2"}
TrainingStatuses == {"training", "completed", "failed", "stopped"}

\* the non-empty sets an interval callback can have closed over
Closures == (SUBSET Ids) \ {{}}

Event(op, kind, status, sent, result) ==
    [op |-> op, kind |-> kind, status |-> status, sent |-> sent, result |-> result,
     body |-> <<>>]

\* history: a 401 or 403 answer counts as an authorization failure, after
\* which the logins before it are no longer the live session
LoginsAfter(status) == IF status \in {401, 403} THEN <<>> ELSE logins

----------------------------------------------------------------------------
(* services/api.js *)

\* authAPI.setToken(token): the default Authorization header it leaves
setToken(token) == IF token # Null THEN Bearer(token) ELSE NoHeader

\* A request interceptor that does not attach the persisted token
RequestHeaderNotAttached ==
    IF storageToken # Null THEN NoHeader ELSE defaultAuth

\* Request interceptor over the axios defaults: the persisted token, when
\* there is one, overrides the default header; otherwise the default stays.
RequestHeader ==
    IF storageToken # Null THEN Bearer(storageToken) ELSE defaultAuth

\* Direct fetch() of the chat page: headers: { 'Authorization': `Bearer ${token}` }
FetchHeader == Bearer(storageToken)

\* Response interceptor, error branch: error.response?.status === 401
ForcesLogout(status) == status = 401

FreeId == CHOOSE i \in 1..(MaxInflight + 1) :
              /\ \A r \in inflight : r.id # i
              /\ \A j \in 1..(i - 1) : \E r \in inflight : r.id = j

Request(kind, hdr) == [id |-> FreeId, kind |-> kind, hdr |-> hdr]

CanSend == Cardinality(inflight) < MaxInflight

\* The error branch of the response interceptor, run for every rejected
\* apiClient call before the caller's catch block.
ResponseRejected(status) ==
    IF ForcesLogout(status)
    THEN /\ storageToken' = Null
         /\ storageUser' = NoItem
         /\ navPending' = TRUE
    ELSE UNCHANGED <<storageToken, storageUser, navPending>>

----------------------------------------------------------------------------
(* contexts/AuthContext.js *)

\* initAuth without the setUser(userData) of its try block
initAuthNoRestore ==
    /\ loading
    /\ IF storageToken # Null
       THEN LET parsed == JSONparse(storageUser) IN
            /\ defaultAuth' = setToken(storageToken)
            /\ IF parsed.ok
               THEN UNCHANGED <<user, storageToken, storageUser>>
               ELSE /\ storageToken' = Null
                    /\ storageUser' = NoItem
                    /\ UNCHANGED user
       ELSE UNCHANGED <<defaultAuth, user, storageToken, storageUser>>
    /\ loading' = FALSE
    /\ authEvent' = Event("initAuth", "-", 0, NoSend, "-")
    /\ UNCHANGED <<navPending, inflight, logins, loggedOut>>
    /\ UNCHANGED <<syncVars, pageVars>>

\* useEffect(() => { initAuth() }, []) : runs once after the first render
initAuth ==
    /\ loading
    /\ IF storageToken # Null
       THEN LET parsed == JSONparse(storageUser) IN
            /\ defaultAuth' = setToken(storageToken)
            /\ IF parsed.ok
               THEN /\ user' = IF parsed.val # Null THEN parsed.val ELSE user
                    /\ UNCHANGED <<storageToken, storageUser>>
               ELSE /\ storageToken' = Null
                    /\ storageUser' = NoItem
                    /\ UNCHANGED user
       ELSE UNCHANGED <<defaultAuth, user, storageToken, storageUser>>
    /\ loading' = FALSE
    /\ authEvent' = Event("initAuth", "-", 0, NoSend, "-")
    /\ UNCHANGED <<navPending, inflight, logins, loggedOut>>
    /\ UNCHANGED <<syncVars, pageVars>>

\* login(username, password) up to its await: the Login and TestAuth pages
\* are routed only while user is null
login ==
    /\ ~loading /\ user = Null /\ CanSend
    /\ inflight' = inflight \cup {Request("login", RequestHeader)}
    /\ authEvent' = Event("login", "login", 0, RequestHeader, "-")
    /\ UNCHANGED <<storageToken, storageUser, user, loading, defaultAuth,
                   navPending, logins, loggedOut>>
    /\ UNCHANGED <<syncVars, pageVars>>

\* login after the await, try branch: the backend answered
\* {access_token, user}
loginResolved(r, token, profile) ==
    /\ r \in inflight /\ r.kind = "login"
    /\ inflight' = inflight \ {r}
    /\ storageToken' = token
    /\ storageUser' = JSONstringify(profile)
    /\ defaultAuth' = setToken(token)
    /\ user' = profile
    /\ logins' = Append(SelectSeq(logins, LAMBDA t : t # token), token)
    /\ loggedOut' = FALSE
    /\ authEvent' = [Event("loginResolved", "login", 200, NoSend, "success")
                         EXCEPT !.body = <<token, profile>>]
    /\ UNCHANGED <<loading, navPending>>
    /\ UNCHANGED <<syncVars, pageVars>>

\* login after the await, catch branch
loginRejected(r, status) ==
    /\ r \in inflight /\ r.kind = "login"
    /\ ~Ok(status)
    /\ inflight' = inflight \ {r}
    /\ ResponseRejected(status)
    /\ logins' = LoginsAfter(status)
    /\ authEvent' = Event("loginRejected", "login", status, NoSend, "failure")
    /\ UNCHANGED <<user, loading, defaultAuth, loggedOut>>
    /\ UNCHANGED <<syncVars, pageVars>>

\* register(username, password, email) up to its await
register ==
    /\ ~loading /\ user = Null /\ CanSend
    /\ inflight' = inflight \cup {Request("register", RequestHeader)}
    /\ authEvent' = Event("register", "register", 0, RequestHeader, "-")
    /\ UNCHANGED <<storageToken, storageUser, user, loading, defaultAuth,
                   navPending, logins, loggedOut>>
    /\ UNCHANGED <<syncVars, pageVars>>

registerResolved(r) ==
    /\ r \in inflight /\ r.kind = "register"
    /\ inflight' = inflight \ {r}
    /\ authEvent' = Event("registerResolved", "register", 200, NoSend, "success")
    /\ UNCHANGED <<storageToken, storageUser, user, loading, defaultAuth,
                   navPending, logins, loggedOut>>
    /\ UNCHANGED <<syncVars, pageVars>>

registerRejected(r, status) ==
    /\ r \in inflight /\ r.kind = "register"
    /\ ~Ok(status)
    /\ inflight' = inflight \ {r}
    /\ ResponseRejected(status)
    /\ logins' = LoginsAfter(status)
    /\ authEvent' = Event("registerRejected", "register", status, NoSend, "failure")
    /\ UNCHANGED <<user, loading, defaultAuth, loggedOut>>
    /\ UNCHANGED <<syncVars, pageVars>>

\* logout(): offered by the navigation bar and the profile page, both
\* rendered only while user is set
logout ==
    /\ ~loading /\ user # Null
    /\ storageToken' = Null
    /\ storageUser' = NoItem
    /\ defaultAuth' = setToken(Null)
    /\ user' = Null
    /\ logins' = <<>>
    /\ loggedOut' = TRUE
    /\ authEvent' = Event("logout", "-", 0, NoSend, "-")
    /\ UNCHANGED <<loading, navPending, inflight>>
    /\ UNCHANGED <<syncVars, pageVars>>

----------------------------------------------------------------------------
(* Authenticated calls of the routed pages *)

\* Any wrapper operation of services/api.js called from a protected page
\* (queryAPI, modelAPI, systemAPI, fineTuningAPI), up to its await
apiCall ==
    /\ ~loading /\ user # Null /\ CanSend
    /\ inflight' = inflight \cup {Request("api", RequestHeader)}
    /\ authEvent' = Event("apiCall", "api", 0, RequestHeader, "-")
    /\ UNCHANGED <<storageToken, storageUser, user, loading, defaultAuth,
                   navPending, logins, loggedOut>>
    /\ UNCHANGED <<syncVars, pageVars>>

apiResolved(r) ==
    /\ r \in inflight /\ r.kind = "api"
    /\ inflight' = inflight \ {r}
    /\ authEvent' = Event("apiResolved", "api", 200, NoSend, "-")
    /\ UNCHANGED <<storageToken, storageUser, user, loading, defaultAuth,
                   navPending, logins, loggedOut>>
    /\ UNCHANGED <<syncVars, pageVars>>

apiRejected(r, status) ==
    /\ r \in inflight /\ r.kind = "api"
    /\ ~Ok(status)
    /\ inflight' = inflight \ {r}
    /\ ResponseRejected(status)
    /\ logins' = LoginsAfter(status)
    /\ authEvent' = Event("apiRejected", "api", status, NoSend, "-")
    /\ UNCHANGED <<user, loading, defaultAuth, loggedOut>>
    /\ UNCHANGED <<syncVars, pageVars>>

\* Chat.handleSubmit up to `await queryAPI.createQuery(...)`. The chat
\* page's own loading flag is component state: a remounted page starts with
\* it false while an earlier handler is still awaiting, so it does not bound
\* the number of handlers in flight.
handleSubmit ==
    /\ ~loading /\ user # Null /\ CanSend
    /\ inflight' = inflight \cup {Request("query", RequestHeader)}
    /\ authEvent' = Event("handleSubmit", "query", 0, RequestHeader, "-")
    /\ UNCHANGED <<storageToken, storageUser, user, loading, defaultAuth,
                   navPending, logins, loggedOut>>
    /\ UNCHANGED <<syncVars, pageVars>>

\* Chat.handleSubmit after the await, try branch. When the reply carries
\* file_action.action === 'generate_csv' the handler goes on to
\* fetch('/api/files/generate-csv') with the token read from localStorage.
handleSubmitResolved(r, fileAction) ==
    /\ r \in inflight /\ r.kind = "query"
    /\ IF fileAction
       THEN /\ inflight' = (inflight \ {r}) \cup
                           {[id |-> r.id, kind |-> "generate-csv", hdr |-> FetchHeader]}
            /\ authEvent' = Event("handleSubmitResolved", "query", 200, FetchHeader, "-")
       ELSE /\ inflight' = inflight \ {r}
            /\ authEvent' = Event("handleSubmitResolved", "query", 200, NoSend, "-")
    /\ UNCHANGED <<storageToken, storageUser, user, loading, defaultAuth,
                   navPending, logins, loggedOut>>
    /\ UNCHANGED <<syncVars, pageVars>>

\* Chat.handleSubmit after the await, catch branch
handleSubmitRejected(r, status) ==
    /\ r \in inflight /\ r.kind = "query"
    /\ ~Ok(status)
    /\ inflight' = inflight \ {r}
    /\ ResponseRejected(status)
    /\ logins' = LoginsAfter(status)
    /\ authEvent' = Event("handleSubmitRejected", "query", status, NoSend, "-")
    /\ UNCHANGED <<user, loading, defaultAuth, loggedOut>>
    /\ UNCHANGED <<syncVars, pageVars>>

\* Chat.handleFileUpload up to `await fetch('/api/files/analyze', ...)`
handleFileUpload ==
    /\ ~loading /\ user # Null /\ CanSend
    /\ inflight' = inflight \cup {Request("analyze", FetchHeader)}
    /\ authEvent' = Event("handleFileUpload", "analyze", 0, FetchHeader, "-")
    /\ UNCHANGED <<storageToken, storageUser, user, loading, defaultAuth,
                   navPending, logins, loggedOut>>
    /\ UNCHANGED <<syncVars, pageVars>>

\* The continuation of a direct fetch(): fileResponse.ok / response.ok is
\* tested, or the catch block runs; neither touches the session, and the
\* axios interceptors are not on this path.
fetchAnswered(r, status) ==
    /\ r \in inflight /\ r.kind \in ViaFetch
    /\ inflight' = inflight \ {r}
    /\ authEvent' = Event("fetchAnswered", r.kind, status, NoSend, "-")
    /\ logins' = LoginsAfter(status)
    /\ UNCHANGED <<storageToken, storageUser, user, loading, defaultAuth,
                   navPending, loggedOut>>
    /\ UNCHANGED <<syncVars, pageVars>>

\* The navigation started by window.location.href = '/login' completes: the
\* document is replaced, every module and component is constructed anew and
\* the pending continuations of the old page are gone. localStorage stays.
pageLoad ==
    /\ navPending
    /\ navPending' = FALSE
    /\ user' = Null
    /\ loading' = TRUE
    /\ defaultAuth' = NoHeader
    /\ inflight' = {}
    /\ authEvent' = Event("pageLoad", "-", 0, NoSend, "-")
    /\ UNCHANGED <<storageToken, storageUser, logins, loggedOut>>
    /\ UNCHANGED <<syncVars, pageVars>>

----------------------------------------------------------------------------
(* Session specification *)

SyncIdle ==
    /\ trainingModels = {}
    /\ notifications = <<>>
    /\ fetches = [has \in Closures |-> 0]
    /\ now = 0
    /\ polling = "idle"

\* The routed pages as their useState calls construct them, no handler
\* running
PagesIdle ==
    /\ messages = <<>>
    /\ chatLoading = FALSE
    /\ chatError = FALSE
    /\ chatStep = "idle"
    /\ uploads = 0
    /\ toasts = <<>>
    /\ modelsError = FALSE
    /\ calls = {}
    /\ queries = <<>>
    /\ histLoading = TRUE
    /\ histError = FALSE
    /\ deleteDialogOpen = FALSE
    /\ queryToDelete = Null
    /\ deleting = {}
    /\ fetching = 0

\* The page as constructed: AuthProvider's useState initial values, the
\* axios instance without a default Authorization header, nothing sent.
AuthConstructed ==
    /\ user = Null
    /\ loading = TRUE
    /\ defaultAuth = NoHeader
    /\ navPending = FALSE
    /\ inflight = {}
    /\ authEvent = NoEvent
    /\ logins = <<>>
    /\ loggedOut = FALSE
    /\ SyncIdle
    /\ page = "none" /\ PagesIdle

\* Client storage as this client leaves it: empty (never logged in, logged
\* out, or cleared by the response interceptor) or holding the token and the
\* profile a login stored.
InitAuth ==
    /\ \/ storageToken = Null /\ storageUser = NoItem
       \/ storageToken \in Tokens /\ storageUser \in {JSONstringify(u) : u \in Profiles}
    /\ AuthConstructed

\* Client storage is durable and shared by the origin: at construction it
\* may hold anything under the two keys, which initAuth allows for (a
\* missing profile, a profile that does not parse).
InitAuthAnyStorage ==
    /\ storageToken \in Tokens \cup {Null}
    /\ storageUser \in StoredProfiles
    /\ AuthConstructed

NextAuth ==
    \/ initAuth
    \/ login
    \/ \E r \in inflight, t \in Tokens, p \in Profiles : loginResolved(r, t, p)
    \/ \E r \in inflight, s \in Statuses : loginRejected(r, s)
    \/ register
    \/ \E r \in inflight : registerResolved(r)
    \/ \E r \in inflight, s \in Statuses : registerRejected(r, s)
    \/ logout
    \/ apiCall
    \/ \E r \in inflight : apiResolved(r)
    \/ \E r \in inflight, s \in Statuses : apiRejected(r, s)
    \/ handleSubmit
    \/ \E r \in inflight, f \in BOOLEAN : handleSubmitResolved(r, f)
    \/ \E r \in inflight, s \in Statuses : handleSubmitRejected(r, s)
    \/ handleFileUpload
    \/ \E r \in inflight, s \in Statuses : fetchAnswered(r, s)
    \/ pageLoad

SpecAuth == InitAuth /\ [][NextAuth]_vars

SpecAuthAnyStorage == InitAuthAnyStorage /\ [][NextAuth]_vars

----------------------------------------------------------------------------
(* Properties of the session *)

Rejections == {"loginRejected", "registerRejected", "apiRejected",
               "handleSubmitRejected"}
Answers == Rejections \cup {"loginResolved", "registerResolved", "apiResolved",
                            "handleSubmitResolved", "fetchAnswered"}
Sent == authEvent.sent # NoSend
SessionCleared == storageToken = Null /\ storageUser = NoItem

\* C3: when an authenticated call (a wrapper operation or one of the chat
\* page's direct requests) is answered 401, the persisted credential and
\* profile are removed and the page is sent to /login, and from then on no
\* authenticated call is sent until a login succeeds.
C3_Unauthorized_ForcesLogout ==
    /\ (authEvent.op \in Answers /\ authEvent.kind \in Authenticated
            /\ authEvent.status = 401)
       => (SessionCleared /\ navPending)
    /\ (navPending /\ logins = <<>>)
       => ~(Sent /\ authEvent.kind \in Authenticated)

\* C4: for a call made through the API client, an answer of 403 forces the
\* logout exactly as 401 does (credential and profile removed, page sent to
\* /login), and an answer with any other status leaves all three alone.
C4_Only401And403_ForceLogout ==
    [][(authEvent'.op \in Answers /\ authEvent'.kind \in {"api", "query"})
         => IF authEvent'.status \in {401, 403}
            THEN SessionCleared' /\ navPending'
            ELSE UNCHANGED <<storageToken, storageUser, navPending>>]_vars

LoginEstablishesSession ==
    authEvent.op = "loginResolved"
    => /\ user = authEvent.body[2]
       /\ storageToken = authEvent.body[1]
       /\ JSONparse(storageUser) = [ok |-> TRUE, val |-> authEvent.body[2]]
       /\ authEvent.result = "success"

\* C5 as stated: after login is answered {access_token: T, user: U} the user
\* is U, T and U are persisted, login returns success, and every request
\* sent afterwards carries Bearer T until a logout or an authorization
\* failure: so it carries the token of every login that succeeded since.
C5_Original_CarriesLoginToken ==
    /\ LoginEstablishesSession
    /\ Sent => \A i \in 1..Len(logins) : authEvent.sent = <<"Bearer", logins[i]>>

\* C5 amended: as above, but the requests carry Bearer T only until a
\* logout, an authorization failure or a later successful login, whose
\* token replaces T: a request carries the token of the latest login.
C5_CarriesLatestLoginToken ==
    /\ LoginEstablishesSession
    /\ (Sent /\ logins # <<>>)
       => authEvent.sent = <<"Bearer", logins[Len(logins)]>>

\* a request sent after two logins with different tokens both succeeded
C5_Witness ==
    /\ authEvent.op \in {"apiCall", "handleFileUpload"}
    /\ Len(logins) = 2
    /\ authEvent.sent = <<"Bearer", logins[2]>>

\* The credential an Authorization header carries: `Bearer null` names none
Credential(hdr) ==
    IF hdr = NoHeader \/ hdr[2] = "null" THEN Null ELSE hdr[2]

\* C6: every request sent, through the API client or directly by the chat
\* page, carries the persisted credential when one is persisted and carries
\* no credential when none is.
C6_HeaderMatchesPersistedToken ==
    Sent => Credential(authEvent.sent) = storageToken

\* C7: no step of register, whether the backend accepts or rejects it,
\* changes the persisted credential, the persisted profile, the in-memory
\* user or the default Authorization header.
C7_RegisterLeavesSession ==
    [][authEvent'.op \in {"register", "registerResolved", "registerRejected"}
         => UNCHANGED <<storageToken, storageUser, user, defaultAuth>>]_vars

\* C8: once logout has run and until a login succeeds, nothing is persisted,
\* the user is null and no request sent carries an Authorization header.
C8_LogoutClearsSession ==
    loggedOut => /\ SessionCleared
                 /\ user = Null
                 /\ Sent => authEvent.sent = NoHeader

\* C9: the user becomes non-null only when a login is answered with a
\* credential and a profile, or when initAuth restores a persisted
\* credential and profile; a login that fails returns failure and leaves the
\* user, the persisted credential and the persisted profile as they were.
C9_AuthenticatedOnlyByLogin ==
    [][/\ (user = Null /\ user' # Null)
            => \/ /\ authEvent'.op = "loginResolved"
                  /\ authEvent'.body[1] \in Tokens
                  /\ user' = authEvent'.body[2]
               \/ /\ authEvent'.op = "initAuth"
                  /\ storageToken \in Tokens
                  /\ JSONparse(storageUser) = [ok |-> TRUE, val |-> user']
       /\ authEvent'.op = "loginRejected"
            => /\ authEvent'.result = "failure"
               /\ UNCHANGED <<user, storageToken, storageUser>>]_vars

----------------------------------------------------------------------------
(* contexts/NotificationContext.js *)

DefaultDuration == 6000

\* The collections GET /fine-tuned-models may return: any of the models, in
\* any order, each with any training_status
Collections ==
    {<<>>}
    \cup {<<[id |-> m, training_status |-> st]>> : m \in Ids, st \in TrainingStatuses}
    \cup {<<[id |-> m[1], training_status |-> st[1]],
            [id |-> m[2], training_status |-> st[2]]>> :
              m \in {x \in Ids \X Ids : x[1] # x[2]},
              st \in TrainingStatuses \X TrainingStatuses}

\* the training_status a collection reports for m, "absent" when it has no
\* entry for m
StatusIn(models, m) ==
    IF \E k \in 1..Len(models) : models[k].id = m
    THEN LET k == CHOOSE k \in 1..Len(models) : models[k].id = m
         IN models[k].training_status
    ELSE "absent"

\* showNotification(message, severity, duration): the list after
\* setNotifications(prev => [...prev, notification]), with id: Date.now()
showNotification(prev, message, severity, duration) ==
    Append(prev, [id |-> now, message |-> message, severity |-> severity,
                  duration |-> duration, open |-> TRUE])

\* A map that flips the flag instead of clearing it
closeNotificationToggling(prev, id) ==
    [k \in 1..Len(prev) |-> IF prev[k].id = id
                            THEN [prev[k] EXCEPT !.open = ~@]
                            ELSE prev[k]]

\* closeNotification(id): prev.map(n => n.id === id ? {...n, open: false} : n)
closeNotification(prev, id) ==
    [k \in 1..Len(prev) |-> IF prev[k].id = id
                            THEN [prev[k] EXCEPT !.open = FALSE]
                            ELSE prev[k]]

\* A filter with the comparison the wrong way round
removeNotificationInverted(prev, id) == SelectSeq(prev, LAMBDA n : n.id = id)

\* removeNotification(id): prev.filter(n => n.id !== id)
removeNotification(prev, id) == SelectSeq(prev, LAMBDA n : n.id # id)

\* The body of models.forEach in the interval callback, for one model. `has`
\* is the trainingModels the callback closed over; acc carries the pending
\* setTrainingModels updates (applied to the latest state), the
\* notification list and the local completedModels array.
ForModel(model, has, acc) ==
    IF model.id \in has
    THEN IF model.training_status = "completed"
         THEN [acc EXCEPT !.completedModels = Append(@, model),
                          !.trainingModels = @ \ {model.id}]
         ELSE IF model.training_status = "failed"
         THEN [acc EXCEPT !.notifications =
                              showNotification(@, <<"failed", model.id>>, "error",
                                               DefaultDuration),
                          !.trainingModels = @ \ {model.id}]
         ELSE acc
    ELSE acc

\* A callback that does not test trainingModels.has(model.id)
ForEachModelUnwatched(models, has, acc) ==
    LET all == {models[k].id : k \in 1..Len(models)}
        RECURSIVE Go(_, _)
        Go(k, a) == IF k > Len(models) THEN a
                    ELSE Go(k + 1, ForModel(models[k], all, a))
    IN Go(1, acc)

\* models.forEach(model => { ... })
ForEachModel(models, has, acc) ==
    LET RECURSIVE Go(_, _)
        Go(k, a) == IF k > Len(models) THEN a
                    ELSE Go(k + 1, ForModel(models[k], has, a))
    IN Go(1, acc)

\* completedModels.forEach(model => showNotification(..., 'success', 8000))
ShowCompleted(completedModels, prev) ==
    LET RECURSIVE Go(_, _)
        Go(k, list) ==
            IF k > Len(completedModels) THEN list
            ELSE Go(k + 1, showNotification(list, <<"completed", completedModels[k].id>>,
                                            "success", 8000))
    IN Go(1, prev)

\* number of poll fetches awaiting their answer
InFlight ==
    LET RECURSIVE Sum(_)
        Sum(S) == IF S = {} THEN 0
                  ELSE LET x == CHOOSE x \in S : TRUE IN fetches[x] + Sum(S \ {x})
    IN Sum(Closures)

\* startMonitoringTraining(modelId); the effect on [trainingModels] then
\* clears the interval and sets a new one closing over the new set.
startMonitoringTraining(modelId) ==
    /\ Len(notifications) < MaxNotifications
    /\ now < MaxClock
    /\ trainingModels' = trainingModels \cup {modelId}
    /\ notifications' = showNotification(notifications, <<"started">>, "info", 4000)
    /\ UNCHANGED <<fetches, now, polling>>
    /\ UNCHANGED <<authVars, pageVars>>

\* The interval fires (it exists while trainingModels.size > 0) and the
\* callback runs up to `await fineTuningAPI.getFineTunedModels()`. The
\* callback closes over the trainingModels of the render that set the
\* interval, which is the current one.
pollTick ==
    /\ trainingModels # {}
    /\ InFlight < MaxFetches
    /\ fetches' = [fetches EXCEPT ![trainingModels] = @ + 1]
    /\ polling' = IF polling = "failed" THEN "retried" ELSE polling
    /\ UNCHANGED <<trainingModels, notifications, now>>
    /\ UNCHANGED <<authVars, pageVars>>

\* The identifiers whose training_status the callback tests: the entries
\* that pass trainingModels.has(model.id) on its closure
StatusChecked(has, models) == {models[k].id : k \in 1..Len(models)} \cap has

\* A callback that also drops every watched identifier the fetched
\* collection has no entry for
CallbackOutcomePruning(has, models, watched, list) ==
    LET each == ForEachModel(models, has,
                             [trainingModels |-> watched,
                              notifications |-> list,
                              completedModels |-> <<>>])
    IN [trainingModels |-> {m \in each.trainingModels : StatusIn(models, m) # "absent"},
        notifications |-> ShowCompleted(each.completedModels, each.notifications)]

\* What the callback does after the await in its try branch, when it closed
\* over `has`, the fetch returned `models`, and the state it updates holds
\* trainingModels `watched` and notifications `list`: models.forEach, then
\* completedModels.forEach. The setTrainingModels and setNotifications
\* updates are functional, so they apply to the state as it is then.
CallbackOutcome(has, models, watched, list) ==
    LET each == ForEachModel(models, has,
                             [trainingModels |-> watched,
                              notifications |-> list,
                              completedModels |-> <<>>])
    IN [trainingModels |-> each.trainingModels,
        notifications |-> ShowCompleted(each.completedModels, each.notifications)]

\* The same on the current state
PollOutcome(has, models) == CallbackOutcome(has, models, trainingModels, notifications)

\* The callback after the await, try branch: a fetch whose callback closed
\* over `has` returned `models`.
pollResolved(has, models) ==
    /\ fetches[has] > 0
    /\ LET out == PollOutcome(has, models)
       IN /\ Len(notifications) < MaxNotifications
          /\ Len(out.notifications) > Len(notifications) => now < MaxClock
          /\ trainingModels' = out.trainingModels
          /\ notifications' = out.notifications
    /\ fetches' = [fetches EXCEPT ![has] = @ - 1]
    /\ UNCHANGED <<now, polling>>
    /\ UNCHANGED <<authVars, pageVars>>

\* A catch branch that surfaces the error to the user
pollRejectedNotifies(has) ==
    /\ fetches[has] > 0
    /\ Len(notifications) < MaxNotifications
    /\ fetches' = [fetches EXCEPT ![has] = @ - 1]
    /\ polling' = "failed"
    /\ notifications' = showNotification(notifications, <<"error">>, "error",
                                         DefaultDuration)
    /\ UNCHANGED <<trainingModels, now>>
    /\ UNCHANGED <<authVars, pageVars>>

\* The callback after the await, catch branch: console.error only
pollRejected(has) ==
    /\ fetches[has] > 0
    /\ fetches' = [fetches EXCEPT ![has] = @ - 1]
    /\ polling' = "failed"
    /\ UNCHANGED <<trainingModels, notifications, now>>
    /\ UNCHANGED <<authVars, pageVars>>

\* Snackbar onClose (autoHideDuration elapsed, click away) or Alert onClose
\* of an open notification. The Snackbar is rendered after the state update
\* that created the notification and its timer runs for `duration` ms, so
\* the call comes in a later millisecond than the one that is the id.
onClose(k) ==
    /\ k \in 1..Len(notifications)
    /\ notifications[k].open
    /\ notifications[k].id < now
    /\ notifications' = closeNotification(notifications, notifications[k].id)
    /\ UNCHANGED <<trainingModels, fetches, now, polling>>
    /\ UNCHANGED <<authVars, pageVars>>

\* A purge wired to fire without waiting for the notification to be closed
onExitedWhileOpen(k) ==
    /\ k \in 1..Len(notifications)
    /\ notifications' = removeNotification(notifications, notifications[k].id)
    /\ UNCHANGED <<trainingModels, fetches, now, polling>>
    /\ UNCHANGED <<authVars, pageVars>>

\* Snackbar onExited: the exit transition of a closed notification ended
onExited(k) ==
    /\ k \in 1..Len(notifications)
    /\ ~notifications[k].open
    /\ notifications' = removeNotification(notifications, notifications[k].id)
    /\ UNCHANGED <<trainingModels, fetches, now, polling>>
    /\ UNCHANGED <<authVars, pageVars>>

\* A millisecond passes
clockTick ==
    /\ now < MaxClock
    /\ now' = now + 1
    /\ UNCHANGED <<trainingModels, notifications, fetches, polling>>
    /\ UNCHANGED <<authVars, pageVars>>

\* The session while the training monitor runs: a user is signed in
AuthSettled ==
    /\ storageToken = "T1"
    /\ storageUser = JSONstringify("U1")
    /\ user = "U1"
    /\ loading = FALSE
    /\ defaultAuth = Bearer("T1")
    /\ navPending = FALSE
    /\ inflight = {}
    /\ authEvent = NoEvent
    /\ logins = <<>>
    /\ loggedOut = FALSE

InitSync == SyncIdle /\ AuthSettled /\ page = "Models" /\ PagesIdle

NextSync ==
    \/ \E m \in Ids : startMonitoringTraining(m)
    \/ pollTick
    \/ \E has \in Closures, models \in Collections : pollResolved(has, models)
    \/ \E has \in Closures : pollRejected(has)
    \/ \E k \in DOMAIN notifications : onClose(k)
    \/ \E k \in DOMAIN notifications : onExited(k)
    \/ clockTick

SpecSync == InitSync /\ [][NextSync]_vars

\* What the environment guarantees: the interval keeps firing while it is
\* set (setInterval, l.47-87), every fetch is answered or fails, time
\* passes, and each rendered Snackbar's hide timer and exit transition fire.
FairSync ==
    /\ WF_vars(pollTick)
    /\ WF_vars(\E has \in Closures :
                 \/ pollRejected(has)
                 \/ \E models \in Collections : pollResolved(has, models))
    /\ WF_vars(clockTick)
    /\ \A k \in 1..(MaxNotifications + 1) : WF_vars(onClose(k)) /\ WF_vars(onExited(k))

SpecSyncFair == SpecSync /\ FairSync

----------------------------------------------------------------------------
(* Properties of the training poll *)

\* the notifications a step appended
Appended == SubSeq(notifications', Len(notifications) + 1, Len(notifications'))

\* how many notifications of a list carry this message
Count(list, message) == Len(SelectSeq(list, LAMBDA n : n.message = message))

IsPollResolved == \E has \in Closures, models \in Collections : pollResolved(has, models)

\* C1: whatever the fetch results and however ticks and responses
\* interleave, an identifier leaves trainingModels at most once per
\* monitoring and exactly one completed-or-failed notification is produced
\* for that exit: a poll response produces one such notification about m
\* when it takes m out of trainingModels, and none about m otherwise.
C1_OneNotificationPerExit ==
    [][IsPollResolved
         => \A m \in Ids :
              Count(Appended, <<"completed", m>>) + Count(Appended, <<"failed", m>>)
                = IF m \in trainingModels /\ m \notin trainingModels' THEN 1 ELSE 0]_vars

\* C2: while a poll fetch has not returned no second one is issued: at most
\* one poll fetch is in flight.
C2_NoOverlappingFetch == InFlight <= 1

\* C10: in the poll tick whose callback closed over `has` (the identifiers
\* watched when the tick fired) and whose fetch returns `models`: each
\* watched identifier fetched as 'completed' yields exactly one notification,
\* of severity success, and is not in trainingModels afterwards; each watched
\* identifier fetched as 'failed' yields exactly one, of severity error, and
\* is not in trainingModels afterwards; an identifier that is not watched,
\* or is fetched with another status, yields none; nothing else is appended
\* and the earlier notifications stay as they were. Stated of every answer
\* that every awaiting tick can receive, in every reachable state.
C10_TickNotifiesWatchedTerminal ==
    \A has \in Closures : fetches[has] > 0 =>
      \A models \in Collections :
        LET out == PollOutcome(has, models)
            shown == SubSeq(out.notifications, Len(notifications) + 1,
                            Len(out.notifications))
        IN /\ SubSeq(out.notifications, 1, Len(notifications)) = notifications
           /\ \A k \in 1..Len(shown) :
                /\ shown[k].message[1] \in {"completed", "failed"}
                /\ shown[k].severity =
                     IF shown[k].message[1] = "completed" THEN "success" ELSE "error"
                /\ shown[k].open
           /\ \A m \in Ids :
                LET st == StatusIn(models, m) IN
                /\ Count(shown, <<"completed", m>>) =
                     IF m \in has /\ st = "completed" THEN 1 ELSE 0
                /\ Count(shown, <<"failed", m>>) =
                     IF m \in has /\ st = "failed" THEN 1 ELSE 0
                /\ (m \in has /\ st \in {"completed", "failed"})
                     => m \notin out.trainingModels

\* one tick has reported m1 completed and m2 failed, both watched: the list
\* holds the two notifications and neither identifier is watched any more
C10_Witness ==
    /\ trainingModels = {}
    /\ \E j, k \in 1..Len(notifications) :
         /\ notifications[j].message = <<"completed", "m1">>
         /\ notifications[j].severity = "success"
         /\ notifications[k].message = <<"failed", "m2">>
         /\ notifications[k].severity = "error"
         /\ notifications[j].id = notifications[k].id

\* the statuses after which training does not go on
Terminal == {"completed", "failed", "stopped"}

\* C11: a watched identifier leaves trainingModels exactly when a poll
\* reports a terminal status for it, the terminal statuses being completed,
\* failed and stopped: a poll response whose callback watches m removes m if
\* and only if the status it reports for m is terminal.
C11_RemovedExactlyOnTerminal ==
    [][\A has \in Closures, models \in Collections :
         pollResolved(has, models)
         => \A m \in has \cap trainingModels :
              (m \notin trainingModels') <=> (StatusIn(models, m) \in Terminal)]_vars

\* the notifications of `list` about identifier m
About(list, m) == Count(list, <<"completed", m>>) + Count(list, <<"failed", m>>)

\* C12: if two consecutive poll fetches report the same status for a watched
\* identifier, the second produces no notification for it, and when that
\* status is not terminal the identifier stays watched. Stated of every
\* awaiting fetch A whose callback watches m, every answer to it, and every
\* fetch B that can report next (one still awaiting, or the one the next
\* tick issues) with every answer to it.
C12_SameStatusNoNotification ==
    \A hasA \in Closures : fetches[hasA] > 0 =>
      \A modelsA \in Collections :
        LET first == PollOutcome(hasA, modelsA)
            awaiting == [fetches EXCEPT ![hasA] = @ - 1]
            next == {h \in Closures : awaiting[h] > 0 \/ h = first.trainingModels}
        IN \A hasB \in next, modelsB \in Collections :
             LET second == CallbackOutcome(hasB, modelsB, first.trainingModels,
                                           first.notifications)
                 shown == SubSeq(second.notifications, Len(first.notifications) + 1,
                                 Len(second.notifications))
             IN \A m \in hasA \cap trainingModels :
                  StatusIn(modelsA, m) = StatusIn(modelsB, m)
                  => /\ About(shown, m) = 0
                     /\ StatusIn(modelsB, m) \notin Terminal => m \in second.trainingModels

\* C13: a watched identifier the fetched collection has no entry for stays
\* in trainingModels and gets no notification in that tick, and a tick
\* changes the membership of no identifier other than those it observes as
\* completed or failed (which it removes; it adds none). Stated of every
\* answer every awaiting fetch can receive.
C13_AbsentUntouched ==
    \A has \in Closures : fetches[has] > 0 =>
      \A models \in Collections :
        LET out == PollOutcome(has, models)
            shown == SubSeq(out.notifications, Len(notifications) + 1,
                            Len(out.notifications))
        IN /\ out.trainingModels \subseteq trainingModels
           /\ \A m \in Ids :
                /\ StatusIn(models, m) = "absent"
                     => /\ m \in trainingModels => m \in out.trainingModels
                        /\ About(shown, m) = 0
                /\ (m \in trainingModels /\ m \notin out.trainingModels)
                     => /\ m \in has
                        /\ StatusIn(models, m) \in {"completed", "failed"}

\* a tick has reported m2 failed and removed it; m1 is still watched and
\* nothing was shown about it
C13_Witness ==
    /\ trainingModels = {"m1"}
    /\ \E k \in 1..Len(notifications) : notifications[k].message = <<"failed", "m2">>
    /\ About(notifications, "m1") = 0

\* C14: no poll fetch is issued while trainingModels is empty, and no status
\* check is made for an identifier that has been removed (until
\* startMonitoringTraining adds it again): a fetch is issued only from a
\* non-empty trainingModels, and a poll response tests the status of
\* currently watched identifiers only.
C14_NoCheckOnceRemoved ==
    [][/\ pollTick => trainingModels # {}
       /\ \A has \in Closures, models \in Collections :
            pollResolved(has, models) => StatusChecked(has, models) \subseteq trainingModels]_vars

IsPollRejected == \E has \in Closures : pollRejected(has)

C16_NoMutationAfterTeardown ==
    [][/\ \A has \in Closures : fetches'[has] > fetches[has] => has = trainingModels
       /\ \A has \in Closures, models \in Collections :
            (has # trainingModels /\ pollResolved(has, models))
            => UNCHANGED <<trainingModels, notifications>>]_vars

\* how many entries of `list` are the notification created at `id` with
\* `message` (all of them, or the open ones only)
Entries(list, id, message, openOnly) ==
    Len(SelectSeq(list, LAMBDA n : /\ n.id = id
                                   /\ n.message = message
                                   /\ openOnly => n.open))

\* C17: a notification is removed from the list only after its open flag
\* has become false: no step removes an entry that is open, i.e. every
\* entry that is open before a step is still in the list after it.
C17_OpenNeverRemoved ==
    [][\A j \in 1..Len(notifications) :
         LET n == notifications[j] IN
         n.open => Entries(notifications', n.id, n.message, FALSE)
                     >= Entries(notifications, n.id, n.message, TRUE)]_vars

\* two trainings were started one after the other: the first 'started'
\* notification was closed and then removed, the second is still open
C17_Witness ==
    /\ trainingModels = {"m1", "m2"}
    /\ Len(notifications) = 1
    /\ notifications[1].message = <<"started">>
    /\ notifications[1].open

WithoutEntry(list, k) == SubSeq(list, 1, k - 1) \o SubSeq(list, k + 1, Len(list))

\* C19: notifications are independent, two enqueued in the same instant
\* included: dismissing or expiring one notification changes the open flag
\* of that entry only, and purging one removes that entry only.
C19_NotificationsIndependent ==
    [][\A k \in 1..Len(notifications) :
         /\ onClose(k) => notifications' = [notifications EXCEPT ![k].open = FALSE]
         /\ onExited(k) => notifications' = WithoutEntry(notifications, k)]_vars

\* C20: startup reads the session from storage. While loading, the only
\* step is initAuth (no routed page is rendered, so none of their handlers
\* runs): it sends no request, ends with loading = false, makes the stored
\* profile the user when a credential and a profile are stored, and leaves
\* the user null when no credential is stored.
C20_StartupRestoresSession ==
    [][loading =>
         /\ authEvent'.op = "initAuth"
         /\ inflight' = inflight /\ inflight = {} /\ authEvent'.sent = NoSend
         /\ loading' = FALSE
         /\ \A u \in Profiles :
              storageToken \in Tokens /\ storageUser = JSONstringify(u) => user' = u
         /\ storageToken = Null => user = Null /\ user' = Null]_vars

\* initAuth has just restored the stored profile
C20_Witness ==
    /\ authEvent.op = "initAuth"
    /\ ~loading
    /\ user \in Profiles
    /\ storageToken \in Tokens
    /\ storageUser = JSONstringify(user)

\* the list differs from `prev` in open flags at most, and no flag is set
OnlyCloses(prev, list) ==
    /\ Len(list) = Len(prev)
    /\ \A j \in 1..Len(prev) :
         /\ list[j] = [prev[j] EXCEPT !.open = list[j].open]
         /\ list[j].open => prev[j].open

\* C22: showNotification appends one open entry and leaves the entries
\* before it as they are; closeNotification (dismissal and expiry) changes
\* open flags to false only, never the length or the order, and changes
\* nothing for an id that no open entry carries; no step turns the open
\* flag of an entry that stays in place from false to true.
C22_AppendOpenCloseOnly ==
    /\ [](LET shown == showNotification(notifications, <<"started">>, "info", 4000)
          IN /\ Len(shown) = Len(notifications) + 1
             /\ SubSeq(shown, 1, Len(notifications)) = notifications
             /\ shown[Len(shown)].open)
    /\ [](\A id \in 0..MaxClock :
            LET closed == closeNotification(notifications, id)
            IN /\ OnlyCloses(notifications, closed)
               /\ (\A j \in 1..Len(notifications) :
                     notifications[j].id = id => ~notifications[j].open)
                  => closed = notifications)
    /\ [][/\ Len(notifications') >= Len(notifications)
             => /\ OnlyCloses(notifications, SubSeq(notifications', 1, Len(notifications)))
                   \/ SubSeq(notifications', 1, Len(notifications)) = notifications
                /\ \A j \in (Len(notifications) + 1)..Len(notifications') :
                     notifications'[j].open
           /\ \A k \in 1..Len(notifications) :
                onClose(k) => OnlyCloses(notifications, notifications')]_vars

\* an entry has been closed and is still in the list, after a poll appended
\* two entries to the list
C22_Witness ==
    /\ Len(notifications) = 2
    /\ ~notifications[1].open
    /\ notifications[2].severity = "success"

\* C23: updates of trainingModels apply to the latest set: an identifier
\* that startMonitoringTraining adds while a poll fetch is awaiting its
\* answer is still in trainingModels after that fetch's callback has run,
\* whatever the fetch returned.
C23_AddedWhileInFlightKept ==
    \A m \in Ids \ trainingModels :
      \A has \in {c \in Closures : fetches[c] > 0}, models \in Collections :
        LET added == showNotification(notifications, <<"started">>, "info", 4000)
        IN m \in CallbackOutcome(has, models, trainingModels \cup {m}, added).trainingModels

\* C26: once initialization has completed, the user is non-null exactly
\* when a credential is persisted.
C26_UserIffCredential ==
    ~loading => (user # Null <=> storageToken # Null)

\* C27: a forced logout removes only the credential that was attached to
\* the failing request: when the 401 answer to a request that was sent
\* under a session clears the persisted credential, the request carried
\* this very credential.
C27_StaleUnauthorizedKeepsSession ==
    [][\A r \in inflight \ inflight' :
         /\ r.hdr # NoHeader
         /\ storageToken # Null /\ storageToken' = Null /\ authEvent'.status = 401
         => r.hdr = Bearer(storageToken)]_vars

\* C28: when startup finds a persisted credential and a persisted profile
\* that does not parse, initialization removes both items and leaves the
\* user null, and the header the client attaches to its requests from then
\* on is not the discarded credential.
C28_UnparsableProfileDiscardsCredential ==
    [][loading /\ storageToken # Null /\ ~JSONparse(storageUser).ok
         => /\ storageToken' = Null
            /\ storageUser' = NoItem
            /\ user' = Null
            /\ RequestHeader' # Bearer(storageToken)
            /\ FetchHeader' # Bearer(storageToken)]_vars

----------------------------------------------------------------------------
(* App.js *)

\* locations: the routed paths and one path no route names
Paths == {"/", "/chat", "/history", "/models", "/profile",
          "/login", "/register", "/test", "/other"}

PublicPages == {"Login", "Register", "TestAuth"}
ProtectedPages == {"Dashboard", "Chat", "History", "Models", "Profile"}

Page(name) == <<"page", name>>
Navigate(to) == <<"navigate", to>>
NoMatch == <<"nothing">>

\* A route table that offers the protected routes whoever is signed in
RoutesUnguarded(path) ==
    CASE path = "/" -> Page("Dashboard")
      [] path = "/chat" -> Page("Chat")
      [] path = "/history" -> Page("History")
      [] path = "/models" -> Page("Models")
      [] path = "/profile" -> Page("Profile")
      [] path \in {"/login", "/register"} -> Navigate("/")
      [] OTHER -> NoMatch

\* <Routes>: the element of the route that matches the path, under the
\* branch `!user ? ... : ...`
Routes(path) ==
    IF user = Null
    THEN CASE path = "/login" -> Page("Login")
           [] path = "/register" -> Page("Register")
           [] path = "/test" -> Page("TestAuth")
           [] OTHER -> Navigate("/login")
    ELSE CASE path = "/" -> Page("Dashboard")
           [] path = "/chat" -> Page("Chat")
           [] path = "/history" -> Page("History")
           [] path = "/models" -> Page("Models")
           [] path = "/profile" -> Page("Profile")
           [] path \in {"/login", "/register"} -> Navigate("/")
           [] OTHER -> NoMatch

\* What App renders at a location: the 'Loading...' box while loading,
\* otherwise the matching route, a <Navigate> being followed
App(path) ==
    IF loading THEN <<"loading">>
    ELSE LET element == Routes(path)
         IN IF element[1] = "navigate" THEN Routes(element[2]) ELSE element

\* the page is on screen at some location
Rendered(name) == \E path \in Paths : App(path) = Page(name)

----------------------------------------------------------------------------
(* Properties of routing *)

\* C29: while the user is null only the login, register and test pages
\* are routed and every other path redirects to /login; while the user is
\* non-null the five protected pages are routed and /login and /register
\* redirect to /; no protected page is rendered while the user is null, and
\* a handler of a protected page only starts while such a page is rendered.
C29_RouteGuard ==
    /\ [](~loading /\ user = Null
            => /\ Routes("/login") = Page("Login")
               /\ Routes("/register") = Page("Register")
               /\ Routes("/test") = Page("TestAuth")
               /\ \A path \in Paths \ {"/login", "/register", "/test"} :
                    Routes(path) = Navigate("/login") /\ App(path) = Page("Login"))
    /\ [](~loading /\ user # Null
            => /\ \A name \in ProtectedPages : Rendered(name)
               /\ \A path \in {"/login", "/register"} :
                    Routes(path) = Navigate("/") /\ App(path) = Page("Dashboard"))
    /\ [](user = Null => \A name \in ProtectedPages : ~Rendered(name))
    /\ [][/\ (authEvent'.op \in {"apiCall", "handleSubmit", "handleFileUpload", "logout"}
                => (\E name \in ProtectedPages : Rendered(name)))
           /\ (authEvent'.op \in {"login", "register"}
                => (\E shown \in PublicPages : Rendered(shown)))]_vars

\* the user has just logged out of a protected page
C29_Witness ==
    /\ authEvent.op = "logout"
    /\ user = Null
    /\ ~loading
    /\ App("/chat") = Page("Login")

----------------------------------------------------------------------------
(* pages/Chat.js : the page state. The session side of the same handlers
   (the requests and their headers) is handleSubmit and handleFileUpload
   above; here the session is held valid, so a failure is any failure but
   the 401 that replaces the page. *)

\* toast.success(text) / toast.error(text)
Toast(type, text) == [type |-> type, text |-> text]

ChatFrame == UNCHANGED <<modelsError, calls, queries, histLoading, histError,
                         deleteDialogOpen, queryToDelete, deleting, fetching>>

\* Chat.handleSubmit up to `await queryAPI.createQuery(...)`
chatSubmit ==
    /\ page = "Chat"
    /\ ~chatLoading
    /\ Len(messages) < MaxMessages /\ Len(toasts) < MaxNotifications
    /\ messages' = Append(messages, "user")
    /\ chatLoading' = TRUE
    /\ chatError' = FALSE
    /\ chatStep' = "query"
    /\ UNCHANGED <<page, uploads, toasts>>
    /\ ChatFrame
    /\ UNCHANGED <<authVars, syncVars>>

\* the query succeeded: the bot reply is appended; with
\* file_action.action === 'generate_csv' the handler goes on to the fetch
\* of /api/files/generate-csv, otherwise it leaves through finally
chatReplied(fileAction) ==
    /\ chatStep = "query"
    /\ messages' = Append(messages, "bot")
    /\ IF fileAction
       THEN chatStep' = "csv" /\ UNCHANGED chatLoading
       ELSE chatStep' = "idle" /\ chatLoading' = FALSE
    /\ UNCHANGED <<page, chatError, uploads, toasts>>
    /\ ChatFrame
    /\ UNCHANGED <<authVars, syncVars>>

\* the query failed: the outer catch, then finally
chatFailed ==
    /\ chatStep = "query"
    /\ chatError' = TRUE
    /\ toasts' = Append(toasts, Toast("error", "Failed to get response from AI"))
    /\ chatLoading' = FALSE
    /\ chatStep' = "idle"
    /\ UNCHANGED <<page, messages, uploads>>
    /\ ChatFrame
    /\ UNCHANGED <<authVars, syncVars>>

\* A file step whose failure falls through to the outer catch
chatFileFailedOuter(threw) ==
    /\ chatStep = "csv"
    /\ chatError' = TRUE
    /\ toasts' = Append(toasts, Toast("error", "Failed to get response from AI"))
    /\ chatLoading' = FALSE
    /\ chatStep' = "idle"
    /\ UNCHANGED <<page, messages, uploads>>
    /\ ChatFrame
    /\ UNCHANGED <<authVars, syncVars>>

\* the fetch of /api/files/generate-csv failed: it threw (inner catch: a
\* toast) or it answered with a non-ok response (nothing); then finally
chatFileFailed(threw) ==
    /\ chatStep = "csv"
    /\ toasts' = IF threw THEN Append(toasts, Toast("error", "Failed to generate file"))
                 ELSE toasts
    /\ chatLoading' = FALSE
    /\ chatStep' = "idle"
    /\ UNCHANGED <<page, messages, chatError, uploads>>
    /\ ChatFrame
    /\ UNCHANGED <<authVars, syncVars>>

\* the fetch answered ok: the download, the file message and a toast
chatFileDownloaded ==
    /\ chatStep = "csv"
    /\ messages' = Append(messages, "file")
    /\ toasts' = Append(toasts, Toast("success", "CSV file generated and downloaded!"))
    /\ chatLoading' = FALSE
    /\ chatStep' = "idle"
    /\ UNCHANGED <<page, chatError, uploads>>
    /\ ChatFrame
    /\ UNCHANGED <<authVars, syncVars>>

\* Chat.handleFileUpload up to its await; it does not touch loading
chatUpload ==
    /\ page = "Chat"
    /\ ~chatLoading
    /\ uploads < MaxInflight
    /\ Len(messages) < MaxMessages /\ Len(toasts) < MaxNotifications
    /\ uploads' = uploads + 1
    /\ UNCHANGED <<page, messages, chatLoading, chatError, chatStep, toasts>>
    /\ ChatFrame
    /\ UNCHANGED <<authVars, syncVars>>

\* Chat.handleFileUpload after the await
chatUploadAnswered(ok) ==
    /\ uploads > 0
    /\ uploads' = uploads - 1
    /\ IF ok
       THEN /\ messages' = messages \o <<"upload", "analysis">>
            /\ toasts' = Append(toasts, Toast("success", "File uploaded and analyzed successfully!"))
       ELSE /\ toasts' = Append(toasts, Toast("error", "Failed to upload file"))
            /\ UNCHANGED messages
    /\ UNCHANGED <<page, chatLoading, chatError, chatStep>>
    /\ ChatFrame
    /\ UNCHANGED <<authVars, syncVars>>

\* clearChat: the button is disabled while loading
clearChat ==
    /\ page = "Chat"
    /\ ~chatLoading
    /\ messages # <<>>
    /\ messages' = <<>>
    /\ chatError' = FALSE
    /\ UNCHANGED <<page, chatLoading, chatStep, uploads, toasts>>
    /\ ChatFrame
    /\ UNCHANGED <<authVars, syncVars>>

----------------------------------------------------------------------------
(* pages/Models.js *)

Call(op, id) == [op |-> op, id |-> id]

ModelsFrame == UNCHANGED <<page, messages, chatLoading, chatError, chatStep, uploads,
                           toasts, queries, histLoading, histError,
                           deleteDialogOpen, queryToDelete, deleting, fetching>>

\* a handler of the Models page up to the await of its fineTuningAPI call
Calling(op, id) ==
    /\ page = "Models"
    /\ Cardinality(calls) < MaxInflight
    /\ Len(notifications) < MaxNotifications
    /\ calls' = calls \cup {Call(op, id)}
    /\ UNCHANGED modelsError
    /\ ModelsFrame
    /\ UNCHANGED <<authVars, syncVars>>

\* the call `c` has been answered and the handler calls loadModels() on
\* its way out
ThenLoadModels(c) == calls' = (calls \ {c}) \cup {Call("load", "-")}

\* loadModels(), from the mount effect and from setInterval(loadModels, 10000)
loadModels == Calling("load", "-")

loadModelsAnswered(c, ok) ==
    /\ c \in calls /\ c.op = "load"
    /\ calls' = calls \ {c}
    /\ modelsError' = ~ok
    /\ ModelsFrame
    /\ UNCHANGED <<authVars, syncVars>>

handleCreateModel == Calling("create", "-")

handleCreateModelResolved(c) ==
    /\ c \in calls /\ c.op = "create"
    /\ notifications' = showNotification(notifications, <<"created">>, "success",
                                         DefaultDuration)
    /\ ThenLoadModels(c)
    /\ UNCHANGED <<modelsError, trainingModels, fetches, now, polling>>
    /\ ModelsFrame
    /\ UNCHANGED authVars

handleCreateModelRejected(c) ==
    /\ c \in calls /\ c.op = "create"
    /\ calls' = calls \ {c}
    /\ modelsError' = TRUE
    /\ notifications' = showNotification(notifications, <<"error", "create">>, "error",
                                         DefaultDuration)
    /\ UNCHANGED <<trainingModels, fetches, now, polling>>
    /\ ModelsFrame
    /\ UNCHANGED authVars

handleStartTraining(modelId) == Calling("start", modelId)

\* startTraining was accepted: startMonitoringTraining(modelId), loadModels()
handleStartTrainingResolved(c) ==
    /\ c \in calls /\ c.op = "start"
    /\ trainingModels' = trainingModels \cup {c.id}
    /\ notifications' = showNotification(notifications, <<"started">>, "info", 4000)
    /\ ThenLoadModels(c)
    /\ UNCHANGED <<modelsError, fetches, now, polling>>
    /\ ModelsFrame
    /\ UNCHANGED authVars

\* A catch block that starts the monitoring all the same
handleStartTrainingRejectedMonitors(c) ==
    /\ c \in calls /\ c.op = "start"
    /\ calls' = calls \ {c}
    /\ modelsError' = TRUE
    /\ trainingModels' = trainingModels \cup {c.id}
    /\ notifications' = showNotification(notifications, <<"error", "start">>, "error",
                                         DefaultDuration)
    /\ UNCHANGED <<fetches, now, polling>>
    /\ ModelsFrame
    /\ UNCHANGED authVars

handleStartTrainingRejected(c) ==
    /\ c \in calls /\ c.op = "start"
    /\ calls' = calls \ {c}
    /\ modelsError' = TRUE
    /\ notifications' = showNotification(notifications, <<"error", "start">>, "error",
                                         DefaultDuration)
    /\ UNCHANGED <<trainingModels, fetches, now, polling>>
    /\ ModelsFrame
    /\ UNCHANGED authVars

\* handleDeleteModel(modelId), window.confirm accepted
handleDeleteModel(modelId) == Calling("delete", modelId)

handleDeleteModelResolved(c) ==
    /\ c \in calls /\ c.op = "delete"
    /\ ThenLoadModels(c)
    /\ UNCHANGED modelsError
    /\ ModelsFrame
    /\ UNCHANGED <<authVars, syncVars>>

\* the catch block: setError only
handleDeleteModelRejected(c) ==
    /\ c \in calls /\ c.op = "delete"
    /\ calls' = calls \ {c}
    /\ modelsError' = TRUE
    /\ ModelsFrame
    /\ UNCHANGED <<authVars, syncVars>>

----------------------------------------------------------------------------
(* pages/History.js *)

QueryIds == {"q1", "q2"}

\* the arrays getQueries can return
QueryLists == {<<>>, <<"q1">>, <<"q2">>, <<"q1", "q2">>, <<"q2", "q1">>}

HistoryFrame == UNCHANGED <<page, messages, chatLoading, chatError, chatStep, uploads,
                            modelsError, calls>>

Awaiting == Cardinality(deleting) + fetching

\* fetchQueries up to its await: from the mount effect, and from the
\* Refresh button of the rendered list
fetchQueries ==
    /\ page = "History"
    /\ \/ histLoading /\ Awaiting = 0 /\ queries = <<>> /\ ~histError
       \/ ~histLoading /\ ~deleteDialogOpen
    /\ Awaiting < MaxInflight
    /\ histLoading' = TRUE
    /\ histError' = FALSE
    /\ fetching' = fetching + 1
    /\ UNCHANGED <<toasts, queries, deleteDialogOpen, queryToDelete, deleting>>
    /\ HistoryFrame
    /\ UNCHANGED <<authVars, syncVars>>

fetchQueriesResolved(data) ==
    /\ fetching > 0
    /\ fetching' = fetching - 1
    /\ queries' = data
    /\ histLoading' = FALSE
    /\ UNCHANGED <<toasts, histError, deleteDialogOpen, queryToDelete, deleting>>
    /\ HistoryFrame
    /\ UNCHANGED <<authVars, syncVars>>

fetchQueriesRejected ==
    /\ fetching > 0
    /\ fetching' = fetching - 1
    /\ histError' = TRUE
    /\ queries' = <<>>
    /\ histLoading' = FALSE
    /\ UNCHANGED <<toasts, deleteDialogOpen, queryToDelete, deleting>>
    /\ HistoryFrame
    /\ UNCHANGED <<authVars, syncVars>>

\* openDeleteDialog(query): the delete icon of a listed entry
openDeleteDialog(k) ==
    /\ page = "History"
    /\ ~histLoading /\ ~deleteDialogOpen
    /\ k \in 1..Len(queries)
    /\ queryToDelete' = queries[k]
    /\ deleteDialogOpen' = TRUE
    /\ UNCHANGED <<toasts, queries, histLoading, histError, deleting, fetching>>
    /\ HistoryFrame
    /\ UNCHANGED <<authVars, syncVars>>

\* closeDeleteDialog: Cancel, or the dialog's onClose
closeDeleteDialog ==
    /\ page = "History"
    /\ ~histLoading /\ deleteDialogOpen
    /\ deleteDialogOpen' = FALSE
    /\ queryToDelete' = Null
    /\ UNCHANGED <<toasts, queries, histLoading, histError, deleting, fetching>>
    /\ HistoryFrame
    /\ UNCHANGED <<authVars, syncVars>>

\* handleDeleteQuery(queryToDelete.id) up to its await: the Delete button
\* of the dialog. The handler closes over the queries of this render.
handleDeleteQuery ==
    /\ page = "History"
    /\ ~histLoading /\ deleteDialogOpen /\ queryToDelete # Null
    /\ Awaiting < MaxInflight
    /\ Len(toasts) < MaxNotifications
    /\ deleting' = deleting \cup {[id |-> queryToDelete, queries |-> queries]}
    /\ UNCHANGED <<toasts, queries, histLoading, histError, deleteDialogOpen,
                   queryToDelete, fetching>>
    /\ HistoryFrame
    /\ UNCHANGED <<authVars, syncVars>>

\* deleteQuery succeeded: setQueries(queries.filter(q => q.id !== queryId))
\* on the closed-over array
handleDeleteQueryResolved(d) ==
    /\ d \in deleting
    /\ deleting' = deleting \ {d}
    /\ queries' = SelectSeq(d.queries, LAMBDA q : q # d.id)
    /\ toasts' = Append(toasts, Toast("success", "Conversation deleted successfully"))
    /\ deleteDialogOpen' = FALSE
    /\ queryToDelete' = Null
    /\ UNCHANGED <<histLoading, histError, fetching>>
    /\ HistoryFrame
    /\ UNCHANGED <<authVars, syncVars>>

\* deleteQuery failed: a toast, nothing else
handleDeleteQueryRejected(d) ==
    /\ d \in deleting
    /\ deleting' = deleting \ {d}
    /\ toasts' = Append(toasts, Toast("error", "Failed to delete conversation"))
    /\ UNCHANGED <<queries, histLoading, histError, deleteDialogOpen, queryToDelete,
                   fetching>>
    /\ HistoryFrame
    /\ UNCHANGED <<authVars, syncVars>>

----------------------------------------------------------------------------
(* Pages specification *)

\* A signed-in user on one of the three pages, just mounted
InitPages ==
    /\ AuthSettled
    /\ SyncIdle
    /\ page \in {"Chat", "Models", "History"}
    /\ PagesIdle

NextPages ==
    \/ chatSubmit
    \/ \E fileAction \in BOOLEAN : chatReplied(fileAction)
    \/ chatFailed
    \/ \E threw \in BOOLEAN : chatFileFailed(threw)
    \/ chatFileDownloaded
    \/ chatUpload
    \/ \E ok \in BOOLEAN : chatUploadAnswered(ok)
    \/ clearChat
    \/ loadModels
    \/ \E c \in calls, ok \in BOOLEAN : loadModelsAnswered(c, ok)
    \/ handleCreateModel
    \/ \E c \in calls : handleCreateModelResolved(c)
    \/ \E c \in calls : handleCreateModelRejected(c)
    \/ \E m \in Ids : handleStartTraining(m)
    \/ \E c \in calls : handleStartTrainingResolved(c)
    \/ \E c \in calls : handleStartTrainingRejected(c)
    \/ \E m \in Ids : handleDeleteModel(m)
    \/ \E c \in calls : handleDeleteModelResolved(c)
    \/ \E c \in calls : handleDeleteModelRejected(c)
    \/ fetchQueries
    \/ \E data \in QueryLists : fetchQueriesResolved(data)
    \/ fetchQueriesRejected
    \/ \E k \in DOMAIN queries : openDeleteDialog(k)
    \/ closeDeleteDialog
    \/ handleDeleteQuery
    \/ \E d \in deleting : handleDeleteQueryResolved(d)
    \/ \E d \in deleting : handleDeleteQueryRejected(d)

SpecPages == InitPages /\ [][NextPages]_vars

----------------------------------------------------------------------------
(* Properties of the pages *)

\* how many toasts and notifications a step put on screen
Shown == (Len(toasts') - Len(toasts)) + (Len(notifications') - Len(notifications))

\* C21: a request failure of a user-initiated action (send a chat message,
\* create a model, delete a history item, delete a model) ends the handler
\* with exactly one notification on screen for it, and the chat's loading
\* flag is reset.
C21_FailureShowsOneNotification ==
    [][(\/ chatFailed
        \/ \E c \in calls : handleCreateModelRejected(c)
        \/ \E d \in deleting : handleDeleteQueryRejected(d)
        \/ \E c \in calls : handleDeleteModelRejected(c))
         => Shown = 1 /\ (chatFailed => ~chatLoading')]_vars

\* position of the last message of a kind, 0 when there is none
LastOf(kind) ==
    LET at == {k \in 1..Len(messages) : messages[k] = kind}
    IN IF at = {} THEN 0 ELSE CHOOSE k \in at : \A j \in at : j <= k

\* C24: the file-generation step runs only once the query has succeeded
\* and the bot reply stands after the user's message; when that step
\* throws or gets a non-ok response the messages stay as they are, the
\* page's error is not set and loading is false again.
C24_FileStepFailureIsolated ==
    /\ [](chatStep = "csv" => LastOf("bot") > LastOf("user") /\ LastOf("user") > 0)
    /\ [][(\E threw \in BOOLEAN : chatFileFailed(threw))
            => /\ messages' = messages
               /\ ~chatError'
               /\ ~chatLoading']_vars

\* the file step of the first message has thrown
C24_Witness ==
    /\ chatStep = "idle"
    /\ messages = <<"user", "bot">>
    /\ toasts = <<Toast("error", "Failed to generate file")>>
    /\ ~chatLoading /\ ~chatError

\* C25: an identifier enters trainingModels only when startTraining was
\* accepted for it; when startTraining fails trainingModels is unchanged
\* and the one notification shown is an error, not 'Training started'.
C25_MonitoredOnlyWhenAccepted ==
    [][/\ \A m \in trainingModels' \ trainingModels :
            \E c \in calls : c = Call("start", m) /\ handleStartTrainingResolved(c)
       /\ \A c \in calls :
            handleStartTrainingRejected(c)
              => /\ trainingModels' = trainingModels
                 /\ Len(Appended) = 1
                 /\ Appended[1].severity = "error"
                 /\ Appended[1].message # <<"started">>]_vars

\* startTraining for m1 has failed
C25_Witness ==
    /\ page = "Models"
    /\ trainingModels = {}
    /\ modelsError
    /\ \E k \in 1..Len(notifications) : notifications[k].message = <<"error", "start">>

\* C30: when deleteQuery succeeds the list loses the deleted id and keeps
\* every other entry it holds at that moment; when it fails the list and
\* the confirmation dialog are left as they are.
C30_DeleteRemovesOnlyThatEntry ==
    [][\A d \in deleting :
         /\ handleDeleteQueryResolved(d)
              => queries' = SelectSeq(queries, LAMBDA q : q # d.id)
         /\ handleDeleteQueryRejected(d)
              => queries' = queries /\ deleteDialogOpen' = deleteDialogOpen]_vars

====
